---- MODULE Spec2Model ----
(***************************************************************************)
(* Model of the Hanoi weather collector: the retrying HTTP client          *)
(* (fetch_with_retry), the fetch stage (fetch_weather_data), the extractor *)
(* (extract_weather_data), the validator (process_weather_data), the       *)
(* SQLite writer (save_to_sqlite), the probe (check_api_connection) and    *)
(* the two orchestrators (hanoi_weather.main and                           *)
(* weather_module.get_current_weather behind hanoi_weather_cli.main).      *)
(*                                                                         *)
(* Numbers of the JSON body are kept in tenths (285 is 28.5), so that the  *)
(* truncation done by int() and the closed range bounds are exact.        *)
(***************************************************************************)
EXTENDS Integers, Sequences, FiniteSets, TLC

\* ------------------------------------------------------------------------
\* Program constants
\* ------------------------------------------------------------------------
MAX_RETRIES == 3
RETRY_DELAY == 1
PROBE_MAX_RETRIES == 2

\* ------------------------------------------------------------------------
\* Bounds of the model
\* ------------------------------------------------------------------------
\* largest max_retries a direct caller of fetch_with_retry passes
MaxAttempts == 3
\* largest initial_delay a direct caller of fetch_with_retry passes
MaxInitialDelay == 2
\* distinct readings of the UTC clock
MaxTime == 2

VARIABLES
    \* fetch_with_retry
    fpc,            \* "idle" | "loop" | "returned" | "raised"
    caller,         \* who called fetch_with_retry: "direct" | "probe" | "fetch"
    max_retries,    \* parameter max_retries
    initial_delay,  \* parameter initial_delay
    retries,        \* local retries
    delay,          \* local delay
    response,       \* status code of the response returned (0: none)
    error,          \* the exception that left fetch_with_retry
    \* observation of one invocation
    events,         \* requests, sleeps and stage calls, in order
    logs,           \* log records <<level, tag>>, in order
    \* orchestrator
    variant,        \* "script" (hanoi_weather.main) | "module" (cli + get_current_weather) | "none"
    pc,             \* position of the orchestrator
    api_key,        \* TRUE when OPENWEATHERMAP_API_KEY is set
    db_path,        \* TRUE when a database path is given (FALSE: --no-save)
    city,           \* the expected city
    body,           \* the body of the response to the fetch
    weather_data,   \* result of fetch_weather_data
    extracted_data, \* result of extract_weather_data
    processed_data, \* result of process_weather_data
    save_result,    \* result of save_to_sqlite
    ret,            \* what the orchestrator returned / how it ended
    store,          \* the table weather_log and its rows
    store0,         \* the store as the invocation found it
    conns,          \* connections opened by sqlite3.connect and never close()d
    env_file,       \* TRUE when the .env file exists
    saves,          \* the last two save_to_sqlite calls, in order
    procs           \* concurrent save_to_sqlite calls: position, record and result of each

vars == <<fpc, caller, max_retries, initial_delay, retries, delay, response, error,
          events, logs, variant, pc, api_key, db_path, city, body, weather_data,
          extracted_data, processed_data, save_result, ret, store, store0, conns, env_file, saves,
          procs>>

fetchVars == <<fpc, caller, max_retries, initial_delay, retries, delay, response, error>>
orchVars == <<variant, pc, api_key, db_path, city, body, weather_data, extracted_data,
              processed_data, save_result, ret, store, store0, conns, env_file, saves, procs>>

\* ------------------------------------------------------------------------
\* Outcomes of one requests.get + raise_for_status
\* ------------------------------------------------------------------------
NoError == [type |-> "none", status |-> 0]

\* status codes the remote service answers with
SuccessStatuses == {200, 204}
ClientErrorStatuses == {401, 404, 429}
ServerErrorStatuses == {500, 503}

\* requests.get raises ConnectionError, Timeout or another RequestException
\* (TooManyRedirects, ...), or returns a response with a status code
Outcomes ==
    {[type |-> "ConnectionError", status |-> 0],
     [type |-> "Timeout", status |-> 0],
     [type |-> "OtherRequestException", status |-> 0]}
    \cup {[type |-> "Response", status |-> s] :
            s \in SuccessStatuses \cup ClientErrorStatuses \cup ServerErrorStatuses}

\* response.raise_for_status(): HTTPError for 400 <= status < 600
RaisesHTTPError(out) == out.type = "Response" /\ out.status >= 400 /\ out.status < 600

\* the except clauses that count the failure against the budget:
\* (ConnectionError, Timeout), and HTTPError with status_code >= 500
RetryableNetworkOnly(out) == out.type \in {"ConnectionError", "Timeout"}

RetryableAnyHTTPError(out) ==
    \/ out.type \in {"ConnectionError", "Timeout"}
    \/ RaisesHTTPError(out)

Retryable(out) ==
    \/ out.type \in {"ConnectionError", "Timeout"}
    \/ RaisesHTTPError(out) /\ out.status >= 500

\* the exception object that propagates for an outcome
ErrorOf(out) ==
    IF out.type = "Response" THEN [type |-> "HTTPError", status |-> out.status]
    ELSE [type |-> out.type, status |-> 0]

\* the exception raised after the while loop
MaxRetriesError == [type |-> "RequestException:max_retries", status |-> 0]

\* delay *= 2
BackoffLinear(d) == d + 1

Backoff(d) == d * 2

GetEvent(who, out) == [ev |-> "get", who |-> who, type |-> out.type, n |-> out.status]
SleepEvent(who, d) == [ev |-> "sleep", who |-> who, type |-> "", n |-> d]
StageEvent(name) == [ev |-> "stage", who |-> "orchestrator", type |-> name, n |-> 0]

Log(level, tag) == <<level, tag>>

\* ------------------------------------------------------------------------
\* fetch_with_retry
\* ------------------------------------------------------------------------
\* the locals fetch_with_retry starts with: retries = 0, delay = initial_delay
FetchLocalsIgnoringDelay(d0) == [retries |-> 0, delay |-> RETRY_DELAY]

FetchLocals(d0) == [retries |-> 0, delay |-> d0]

\* entry of fetch_with_retry
CallFetchWithRetry(who, mr, d0) ==
    /\ fpc' = "loop"
    /\ caller' = who
    /\ max_retries' = mr
    /\ initial_delay' = d0
    /\ retries' = FetchLocals(d0).retries
    /\ delay' = FetchLocals(d0).delay
    /\ response' = 0
    /\ error' = NoError

\* `if retries < max_retries` after `retries += 1`: sleep and go round again,
\* else log and re-raise
BudgetLeftInclusive(r, mr) == r <= mr

BudgetLeftAlways(r, mr) == TRUE

BudgetLeft(r, mr) == r < mr

\* the except branch of a failure that is retried: retries += 1, then sleep
\* and double the delay, or re-raise when the budget is used up
RetryBranch(out) ==
    /\ retries' = retries + 1
    /\ response' = response
    /\ IF BudgetLeft(retries + 1, max_retries)
       THEN /\ events' = events \o <<GetEvent(caller, out), SleepEvent(caller, delay)>>
            /\ logs' = Append(logs, Log("warning", "retrying"))
            /\ delay' = Backoff(delay)
            /\ fpc' = "loop"
            /\ error' = error
       ELSE /\ events' = Append(events, GetEvent(caller, out))
            /\ logs' = Append(logs, Log("error", "retries_used_up"))
            /\ delay' = delay
            /\ fpc' = "raised"
            /\ error' = ErrorOf(out)

\* the except branches that re-raise at once: HTTPError below 500, and any
\* other RequestException
RaiseBranch(out) ==
    /\ events' = Append(events, GetEvent(caller, out))
    /\ logs' = Append(logs, Log("error",
                  IF out.type = "Response" THEN "http_client_error" ELSE "request_error"))
    /\ fpc' = "raised"
    /\ error' = ErrorOf(out)
    /\ UNCHANGED <<retries, delay, response>>

\* return response
ReturnBranch(out) ==
    /\ events' = Append(events, GetEvent(caller, out))
    /\ logs' = logs
    /\ fpc' = "returned"
    /\ response' = out.status
    /\ UNCHANGED <<retries, delay, error>>

\* one iteration of `while retries < max_retries`
Attempt ==
    /\ fpc = "loop"
    /\ retries < max_retries
    /\ \E out \in Outcomes :
         IF Retryable(out) THEN RetryBranch(out)
         ELSE IF RaisesHTTPError(out) \/ out.type # "Response" THEN RaiseBranch(out)
         ELSE ReturnBranch(out)
    /\ UNCHANGED <<caller, max_retries, initial_delay>>
    /\ UNCHANGED orchVars

\* the loop condition is false: the raise after the loop
LoopExit ==
    /\ fpc = "loop"
    /\ ~(retries < max_retries)
    /\ fpc' = "raised"
    /\ error' = MaxRetriesError
    /\ logs' = Append(logs, Log("error", "max_retries_reached"))
    /\ UNCHANGED <<caller, max_retries, initial_delay, retries, delay, response, events>>
    /\ UNCHANGED orchVars

\* ------------------------------------------------------------------------
\* JSON values, as Python sees them after response.json()
\* ------------------------------------------------------------------------
\* k: "missing" (key not in the dict), "null", "num" (finite number, n in
\* tenths), "inf" (n is the sign), "nan", "bigint" (an integer beyond the range
\* of float and of a 64-bit integer), "intstr" (a string holding an integer
\* literal, n in tenths), "decstr" (a string holding a decimal literal),
\* "str" (any other string, s its text), "bool" (n is 0 or 10), "list" and
\* "dict" (n is the length)
Val(k, n, s) == [k |-> k, n |-> n, s |-> s]
Missing == Val("missing", 0, "")
Null == Val("null", 0, "")
Num(n) == Val("num", n, "")
Str(s) == Val("str", 0, s)

\* dict.get(key): None when the key is not there
DictGet(v) == IF v.k = "missing" THEN Null ELSE v

\* bool(v), as `if v` and `v if v else ...` take it
Truthy(v) ==
    CASE v.k \in {"missing", "null"} -> FALSE
      [] v.k \in {"num", "bool", "list", "dict"} -> v.n # 0
      [] v.k = "str" -> v.s # ""
      [] OTHER -> TRUE

Absent == [kind |-> "None"]

\* ------------------------------------------------------------------------
\* extract_weather_data
\* ------------------------------------------------------------------------
\* A body is [shape, main, wind, weather, name].  shape "dict" is a JSON
\* object, anything else has no .get.  A group is "missing", "dict" or
\* "other" (null, list, string, number: no .get).  weather is "missing",
\* "falsy" (null, [], "", 0, {}, false), "list" (non-empty, `first` its
\* element 0), "str" (non-empty string), "dict" (non-empty object, [0] is a
\* KeyError) or "scalar" (non-zero number or true, [0] is a TypeError).
HasGetDictOnly(group) == group.g = "dict"

HasGet(group) == group.g \in {"missing", "dict"}

\* the try body of extract_weather_data raises
ExtractRaises(data) ==
    \/ data.shape # "dict"
    \/ ~HasGet(data.main)
    \/ ~HasGet(data.wind)
    \/ data.weather.w \in {"dict", "scalar"}

\* weather_description
WeatherDescription(weather) ==
    IF weather.w = "list" /\ weather.first.d = "dict"
    THEN DictGet(weather.first.description)
    ELSE Null

\* the exception the try body raises: .get on something that is no dict is
\* an AttributeError, [0] on a dict a KeyError, [0] on a number a TypeError
ExtractException(data) ==
    CASE data.shape # "dict" \/ ~HasGet(data.main) \/ ~HasGet(data.wind) -> "AttributeError"
      [] data.weather.w = "dict" -> "KeyError"
      [] data.weather.w = "scalar" -> "TypeError"
      [] OTHER -> "none"

\* except (KeyError, IndexError) ... except Exception
ExtractCaughtKeyErrorOnly(exc) == exc \in {"KeyError", "IndexError"}

ExtractCaught(exc) ==
    \/ exc \in {"KeyError", "IndexError"}
    \/ exc \in {"AttributeError", "TypeError", "ValueError"}

extract_weather_data(data) ==
    IF ExtractRaises(data)
    THEN IF ExtractCaught(ExtractException(data)) THEN Absent
         ELSE [kind |-> "Raise", exc |-> ExtractException(data)]
    ELSE
        [kind |-> "Extracted",
         temperature |-> DictGet(data.main.temp),
         humidity |-> DictGet(data.main.humidity),
         pressure |-> DictGet(data.main.pressure),
         wind_speed |-> DictGet(data.wind.speed),
         description |-> WeatherDescription(data.weather),
         city_name |-> DictGet(data.name)]

\* ------------------------------------------------------------------------
\* process_weather_data
\* ------------------------------------------------------------------------
Coerced(v) == [exc |-> "none", val |-> v]
CoercionError(e) == [exc |-> e, val |-> Null]

\* float(v)
ToFloat(v) ==
    CASE v.k \in {"num", "inf", "nan"} -> Coerced(v)
      [] v.k \in {"intstr", "decstr", "bool"} -> Coerced(Num(v.n))
      [] v.k = "bigint" -> CoercionError("OverflowError")
      [] v.k = "str" -> CoercionError("ValueError")
      [] OTHER -> CoercionError("TypeError")

\* truncation toward zero, in tenths
TruncFloor(n) == (n \div 10) * 10

Trunc(n) == IF n >= 0 THEN (n \div 10) * 10 ELSE -(((-n) \div 10) * 10)

\* int(v)
ToInt(v) ==
    CASE v.k = "num" -> Coerced(Num(Trunc(v.n)))
      [] v.k \in {"intstr", "bool"} -> Coerced(Num(v.n))
      [] v.k = "bigint" -> Coerced(v)
      [] v.k = "inf" -> CoercionError("OverflowError")
      [] v.k \in {"nan", "decstr", "str"} -> CoercionError("ValueError")
      [] OTHER -> CoercionError("TypeError")

\* `None in [temperature, humidity, pressure, wind_speed]`
AnyRequiredNone(ex) ==
    \E f \in {ex.temperature, ex.humidity, ex.pressure, ex.wind_speed} : f.k = "null"

\* the first exception of the four conversions, in the order of the code
CoercionFailure(ex) ==
    LET t == ToFloat(ex.temperature)
        h == ToInt(ex.humidity)
        p == ToFloat(ex.pressure)
        w == ToFloat(ex.wind_speed)
    IN CASE t.exc # "none" -> t.exc
         [] h.exc # "none" -> h.exc
         [] p.exc # "none" -> p.exc
         [] w.exc # "none" -> w.exc
         [] OTHER -> "none"

\* except (ValueError, TypeError)
CoercionCaught(exc) == exc \in {"ValueError", "TypeError"}

\* v < lo or v > hi on a coerced value, lo and hi in whole units
OutOfRangeIncludingBounds(v, lo, hi) ==
    CASE v.k = "num" -> v.n <= lo * 10 \/ v.n >= hi * 10
      [] v.k = "inf" -> TRUE
      [] v.k = "bigint" -> TRUE
      [] OTHER -> FALSE

OutOfRange(v, lo, hi) ==
    CASE v.k = "num" -> v.n < lo * 10 \/ v.n > hi * 10
      [] v.k = "inf" -> TRUE
      [] v.k = "bigint" -> TRUE
      [] OTHER -> FALSE

\* the range warnings logged for the coerced values
RangeWarnings(temp, humidity, pressure, wind_speed) ==
    {f \in {"temperature", "humidity", "pressure", "wind_speed"} :
        CASE f = "temperature" -> OutOfRange(temp, -100, 100)
          [] f = "humidity" -> OutOfRange(humidity, 0, 100)
          [] f = "pressure" -> OutOfRange(pressure, 800, 1200)
          [] OTHER -> OutOfRange(wind_speed, 0, 200)}

\* extracted_data['city_name'] != expected_city
CityMismatch(ex, expected_city) == ex.city_name # Str(expected_city)

\* humidity_percent of the record
RecordHumidityClamped(h) ==
    IF h.k = "num" /\ h.n > 1000 THEN Num(1000)
    ELSE IF h.k = "num" /\ h.n < 0 THEN Num(0) ELSE h

RecordHumidity(h) == h

\* the dictionary process_weather_data builds
ProcessedRecord(ex, expected_city, ts) ==
    [kind |-> "Record",
     timestamp_utc |-> ts,
     city_name |-> IF Truthy(ex.city_name) THEN ex.city_name ELSE Str(expected_city),
     temperature_celsius |-> ToFloat(ex.temperature).val,
     humidity_percent |-> RecordHumidity(ToInt(ex.humidity).val),
     pressure_hpa |-> ToFloat(ex.pressure).val,
     wind_speed_mps |-> ToFloat(ex.wind_speed).val,
     weather_description |-> ex.description]

\* process_weather_data(extracted_data, expected_city) with the clock at ts:
\* what it returns (kind "None" or "Record") or raises (kind "Raise"), and
\* what it logs
process_weather_data(ex, expected_city, ts) ==
    IF ex = Absent
    THEN [kind |-> "None", rec |-> Absent, exc |-> "none",
          logs |-> <<Log("error", "no_extracted_data")>>]
    ELSE IF AnyRequiredNone(ex)
    THEN [kind |-> "None", rec |-> Absent, exc |-> "none",
          logs |-> <<Log("warning", "missing_required_data")>>]
    ELSE IF CoercionFailure(ex) # "none"
    THEN IF CoercionCaught(CoercionFailure(ex))
         THEN [kind |-> "None", rec |-> Absent, exc |-> "none",
               logs |-> <<Log("error", "conversion_error")>>]
         ELSE [kind |-> "Raise", rec |-> Absent, exc |-> CoercionFailure(ex),
               logs |-> <<>>]
    ELSE LET rec == ProcessedRecord(ex, expected_city, ts)
             ranges == RangeWarnings(rec.temperature_celsius, ToInt(ex.humidity).val,
                                     rec.pressure_hpa, rec.wind_speed_mps)
             warn(f) == IF f \in ranges THEN <<Log("warning", f)>> ELSE <<>>
         IN [kind |-> "Record", rec |-> rec, exc |-> "none",
             logs |-> warn("temperature") \o warn("humidity") \o warn("pressure")
                      \o warn("wind_speed")
                      \o (IF CityMismatch(ex, expected_city)
                          THEN <<Log("warning", "city_mismatch")>> ELSE <<>>)
                      \o <<Log("info", "processed")>>]

\* ------------------------------------------------------------------------
\* save_to_sqlite
\* ------------------------------------------------------------------------
\* the store: whether weather_log (and its index) exists, and its rows
NoStore == [table |-> FALSE, rows |-> {}]

Timestamps(st) == {r.timestamp_utc : r \in st.rows}

\* what the environment does to one save_to_sqlite call: nothing, os.makedirs
\* fails (OSError), connect or CREATE fails (sqlite3.Error before the schema
\* exists), INSERT or commit fails (sqlite3.Error, rolled back)
FailureModes == {"none", "oserror", "open_error", "write_error"}

\* binding one parameter of the INSERT
BindError(v) ==
    CASE v.k \in {"list", "dict"} -> "ProgrammingError"
      [] v.k = "bigint" -> "OverflowError"
      [] OTHER -> "none"

\* the first parameter of data_tuple that cannot be bound
FirstBindError(rec) ==
    CASE BindError(rec.city_name) # "none" -> BindError(rec.city_name)
      [] BindError(rec.temperature_celsius) # "none" -> BindError(rec.temperature_celsius)
      [] BindError(rec.humidity_percent) # "none" -> BindError(rec.humidity_percent)
      [] BindError(rec.pressure_hpa) # "none" -> BindError(rec.pressure_hpa)
      [] BindError(rec.wind_speed_mps) # "none" -> BindError(rec.wind_speed_mps)
      [] OTHER -> BindError(rec.weather_description)

\* a value as the column stores it: NaN is stored as NULL, a number in a
\* TEXT column as its text
Stored(v, affinity) ==
    CASE v.k = "nan" -> Null
      [] affinity = "TEXT" /\ v.k \in {"num", "bool"} ->
            Val(IF v.n % 10 = 0 THEN "intstr" ELSE "decstr", v.n, "")
      [] affinity = "TEXT" /\ v.k = "inf" -> Str("Inf")
      [] affinity # "TEXT" /\ v.k = "bool" -> Num(v.n)
      [] OTHER -> v

\* the row INSERT writes for data_tuple
RowOfWithoutDescription(rec) ==
    [timestamp_utc |-> rec.timestamp_utc,
     city_name |-> Stored(rec.city_name, "TEXT"),
     temperature_celsius |-> Stored(rec.temperature_celsius, "REAL"),
     humidity_percent |-> Stored(rec.humidity_percent, "INTEGER"),
     pressure_hpa |-> Stored(rec.pressure_hpa, "REAL"),
     wind_speed_mps |-> Stored(rec.wind_speed_mps, "REAL"),
     weather_description |-> Null]

RowOf(rec) ==
    [timestamp_utc |-> rec.timestamp_utc,
     city_name |-> Stored(rec.city_name, "TEXT"),
     temperature_celsius |-> Stored(rec.temperature_celsius, "REAL"),
     humidity_percent |-> Stored(rec.humidity_percent, "INTEGER"),
     pressure_hpa |-> Stored(rec.pressure_hpa, "REAL"),
     wind_speed_mps |-> Stored(rec.wind_speed_mps, "REAL"),
     weather_description |-> Stored(rec.weather_description, "TEXT")]

\* sqlite3.IntegrityError: timestamp_utc PRIMARY KEY, city_name NOT NULL
ConstraintViolatedNotNullOnly(rec, st) == RowOf(rec).city_name.k = "null"

ConstraintViolated(rec, st) ==
    \/ rec.timestamp_utc \in Timestamps(st)
    \/ RowOf(rec).city_name.k = "null"

\* CREATE TABLE IF NOT EXISTS weather_log, CREATE INDEX IF NOT EXISTS
RecreateSchema(st) == [table |-> TRUE, rows |-> {}]

EnsureSchema(st) == [st EXCEPT !.table = TRUE]

\* the store after an exception left the `with sqlite3.connect(...)` block:
\* the schema statements stay, the INSERT is rolled back
AfterFailedInsertKeepsRow(st, rec) == [EnsureSchema(st) EXCEPT !.rows = @ \cup {RowOf(rec)}]

AfterFailedInsert(st, rec) == EnsureSchema(st)

\* `with sqlite3.connect(db_path) as conn` commits or rolls back on exit and
\* never calls conn.close(): an opened connection stays open until the
\* interpreter finalises the object, which may or may not have happened
OpenAfterSave(connected) == IF connected THEN {0, 1} ELSE {0}

SaveResult(result, exc, st, connected, logs_) ==
    [result |-> result, exc |-> exc, store |-> st, connected |-> connected, logs |-> logs_]

\* save_to_sqlite(data_dict, db_path) on store st under failure mode `mode`:
\* result "True", "False" or "raise" (with the exception class caught by
\* `except sqlite3.Error` or by `except Exception`), the store afterwards,
\* whether a connection was opened, and the log
save_to_sqlite(rec, st, mode) ==
    CASE mode = "oserror" ->
           SaveResult("raise", "OSError", st, FALSE, <<Log("critical", "save_unexpected")>>)
      [] mode = "open_error" ->
           SaveResult("raise", "sqlite3.Error", st, FALSE, <<Log("error", "save_sqlite_error")>>)
      [] FirstBindError(rec) = "ProgrammingError" ->
           SaveResult("raise", "sqlite3.Error", AfterFailedInsert(st, rec), TRUE,
                      <<Log("error", "save_sqlite_error")>>)
      [] FirstBindError(rec) = "OverflowError" ->
           SaveResult("raise", "OverflowError", AfterFailedInsert(st, rec), TRUE,
                      <<Log("critical", "save_unexpected")>>)
      [] mode = "write_error" ->
           SaveResult("raise", "sqlite3.Error", AfterFailedInsert(st, rec), TRUE,
                      <<Log("error", "save_sqlite_error")>>)
      [] ConstraintViolated(rec, st) ->
           SaveResult("False", "none", AfterFailedInsert(st, rec), TRUE,
                      <<Log("warning", "timestamp_exists")>>)
      [] OTHER ->
           SaveResult("True", "none", [EnsureSchema(st) EXCEPT !.rows = @ \cup {RowOf(rec)}], TRUE,
                      <<Log("info", "saved")>>)

\* ------------------------------------------------------------------------
\* Values that are not in use
\* ------------------------------------------------------------------------
IdleOrchestrator ==
    /\ variant = "none"
    /\ pc = "none"
    /\ api_key = FALSE
    /\ db_path = FALSE
    /\ city = ""
    /\ body = Absent
    /\ weather_data = Absent
    /\ extracted_data = Absent
    /\ processed_data = Absent
    /\ save_result = "none"
    /\ ret = "none"
    /\ conns = 0
    /\ env_file = FALSE
    /\ saves = <<>>
    /\ procs = <<>>

\* ------------------------------------------------------------------------
\* fetch_with_retry called directly with any budget and any initial delay
\* ------------------------------------------------------------------------
InitRetry ==
    /\ \E mr \in 0..MaxAttempts, d0 \in 1..MaxInitialDelay :
         /\ fpc = "loop"
         /\ caller = "direct"
         /\ max_retries = mr
         /\ initial_delay = d0
         /\ retries = FetchLocals(d0).retries
         /\ delay = FetchLocals(d0).delay
         /\ response = 0
         /\ error = NoError
    /\ events = <<>>
    /\ logs = <<>>
    /\ IdleOrchestrator
    /\ store = NoStore
    /\ store0 = NoStore

NextRetry == Attempt \/ LoopExit

SpecRetry == InitRetry /\ [][NextRetry]_vars

\* ------------------------------------------------------------------------
\* save_to_sqlite called again and again on one store
\* ------------------------------------------------------------------------
\* extracted fields with the given humidity, description and city name
Sample(h, d, c) ==
    [kind |-> "Extracted", temperature |-> Num(285), humidity |-> h, pressure |-> Num(10080),
     wind_speed |-> Num(32), description |-> d, city_name |-> c]

\* records process_weather_data returns and the orchestrators hand on: two
\* well-typed ones at every clock reading, and at the first reading one with a
\* list for the description, one with a humidity beyond 64 bits and one with
\* NaN for the city name
PersistRecords ==
    {ProcessedRecord(ex, "Hanoi", ts) :
        ex \in {Sample(Num(700), Str("clear sky"), Str("Hanoi")),
                Sample(Num(1500), Str("clear sky"), Str("Hanoi"))},
        ts \in 1..MaxTime}
    \cup
    {ProcessedRecord(ex, "Hanoi", 1) :
        ex \in {Sample(Num(700), Val("list", 1, ""), Str("Hanoi")),
                Sample(Val("bigint", 1, ""), Null, Null),
                Sample(Num(700), Null, Val("nan", 0, ""))}}

\* one observed call
SaveCall(rec, mode, st, r) ==
    [rec |-> rec, mode |-> mode, fresh |-> rec.timestamp_utc \notin Timestamps(st),
     result |-> r.result, exc |-> r.exc]

LastTwo(s) == IF Len(s) > 2 THEN SubSeq(s, Len(s) - 1, Len(s)) ELSE s

InitPersist ==
    /\ fpc = "idle"
    /\ caller = "none"
    /\ max_retries = 0
    /\ initial_delay = 0
    /\ retries = 0
    /\ delay = 0
    /\ response = 0
    /\ error = NoError
    /\ events = <<>>
    /\ logs = <<>>
    /\ IdleOrchestrator
    /\ store = NoStore
    /\ store0 = NoStore

Save ==
    \E rec \in PersistRecords, mode \in FailureModes :
        LET r == save_to_sqlite(rec, store, mode)
        IN /\ processed_data' = rec
           /\ save_result' = r.result
           /\ store' = r.store
           /\ conns' \in OpenAfterSave(r.connected)
           /\ logs' = r.logs
           /\ saves' = LastTwo(Append(saves, SaveCall(rec, mode, store, r)))
           /\ events' = <<StageEvent("persist")>>
           /\ UNCHANGED fetchVars
           /\ UNCHANGED <<procs, variant, pc, api_key, db_path, city, body, weather_data,
                          extracted_data, ret, store0, env_file>>

NextPersist == Save

SpecPersist == InitPersist /\ [][NextPersist]_vars

\* ------------------------------------------------------------------------
\* Response bodies
\* ------------------------------------------------------------------------
MainGroup(t, h, p) == [g |-> "dict", temp |-> t, humidity |-> h, pressure |-> p]
MainAbsent(g) == [g |-> g, temp |-> Missing, humidity |-> Missing, pressure |-> Missing]
WindGroup(s) == [g |-> "dict", speed |-> s]
WindAbsent(g) == [g |-> g, speed |-> Missing]
WeatherList(d, description) == [w |-> "list", first |-> [d |-> d, description |-> description]]
WeatherOther(w) == [w |-> w, first |-> [d |-> "other", description |-> Missing]]
DictBody(main, wind, weather, name) ==
    [shape |-> "dict", main |-> main, wind |-> wind, weather |-> weather, name |-> name]
NonDictBody(shape) ==
    [shape |-> shape, main |-> MainAbsent("missing"), wind |-> WindAbsent("missing"),
     weather |-> WeatherOther("missing"), name |-> Missing]

ClearSky == WeatherList("dict", Str("clear sky"))

\* {"main":{"temp":28.5,"humidity":70,"pressure":1008},"wind":{"speed":3.2},
\*  "weather":[{"description":"clear sky"}],"name":"Hanoi"}
ReferenceBody ==
    DictBody(MainGroup(Num(285), Num(700), Num(10080)), WindGroup(Num(32)), ClearSky, Str("Hanoi"))

TemperatureValues ==
    {Null, Num(285), Num(1000), Num(1001), Num(-1000), Num(-1001), Val("bigint", 1, ""),
     Str("abc")}
HumidityValues ==
    {Missing, Null, Num(700), Num(1500), Num(1000), Num(1005), Num(-5), Num(-10),
     Val("inf", 1, ""), Val("nan", 0, ""), Val("intstr", 700, ""), Val("decstr", 705, ""),
     Val("list", 1, "")}
PressureValues ==
    {Missing, Num(10080), Num(7999), Num(8000), Num(12000), Num(12001), Val("nan", 0, "")}
WindSpeedValues == {Null, Num(32), Num(2000), Num(2001), Num(0), Num(-1)}
MainGroups ==
    {MainGroup(t, h, p) : t \in TemperatureValues, h \in HumidityValues, p \in PressureValues}
    \cup {MainAbsent("missing"), MainAbsent("other")}
WindGroups == {WindGroup(s) : s \in WindSpeedValues} \cup {WindAbsent("missing"), WindAbsent("other")}
WeatherValues ==
    {ClearSky, WeatherList("dict", Missing), WeatherList("dict", Val("list", 1, "")),
     WeatherList("other", Missing), WeatherOther("missing"), WeatherOther("falsy"),
     WeatherOther("str"), WeatherOther("dict"), WeatherOther("scalar")}
NameValues == {Missing, Null, Str("Hanoi"), Str("Hue"), Str(""), Num(50), Val("nan", 0, "")}

\* the bodies the pipeline is run on: every combination of the measurement
\* values under the reference weather list, every combination of weather list
\* and name around the reference measurements, and the bodies that are no object
PipelineBodies ==
    {DictBody(m, w, ClearSky, n) : m \in MainGroups, w \in WindGroups, n \in {Str("Hanoi"), Missing}}
    \cup {DictBody(m, WindGroup(Num(32)), wl, n) :
            m \in {MainGroup(Num(285), Num(700), Num(10080)), MainGroup(Num(285), Num(1500), Num(10080))},
            wl \in WeatherValues, n \in NameValues}
    \cup {NonDictBody(s) : s \in {"null", "list", "str", "num"}}

\* stores a run can find on disk: no file, or the table with the rows of
\* earlier runs
OldRow(ts) == RowOf(ProcessedRecord(Sample(Num(650), Null, Str("Hanoi")), "Hanoi", ts))
InitialStores ==
    {NoStore} \cup {[table |-> TRUE, rows |-> {OldRow(ts) : ts \in T}] : T \in SUBSET (1..MaxTime)}

\* ------------------------------------------------------------------------
\* extract -> validate -> persist on one body
\* ------------------------------------------------------------------------
InitPipeline ==
    /\ fpc = "idle"
    /\ caller = "none"
    /\ max_retries = 0
    /\ initial_delay = 0
    /\ retries = 0
    /\ delay = 0
    /\ response = 0
    /\ error = NoError
    /\ events = <<>>
    /\ logs = <<>>
    /\ variant = "pipeline"
    /\ pc = "extract"
    /\ api_key = TRUE
    /\ db_path = TRUE
    /\ env_file = FALSE
    /\ city \in {"Hanoi", "Hue"}
    /\ body \in PipelineBodies
    /\ weather_data = body
    /\ extracted_data = Absent
    /\ processed_data = Absent
    /\ save_result = "none"
    /\ ret = "none"
    /\ store \in {NoStore, [table |-> TRUE, rows |-> {OldRow(1)}]}
    /\ store0 = store
    /\ conns = 0
    /\ saves = <<>>
    /\ procs = <<>>

\* extracted_data = extract_weather_data(weather_data)
PipelineExtract ==
    /\ variant = "pipeline" /\ pc = "extract"
    /\ extracted_data' = extract_weather_data(weather_data)
    /\ events' = Append(events, StageEvent("extract"))
    /\ logs' = Append(logs, IF extract_weather_data(weather_data) = Absent
                            THEN Log("error", "extract_failed") ELSE Log("info", "extracted"))
    /\ pc' = IF extract_weather_data(weather_data).kind = "Raise" THEN "done" ELSE "validate"
    /\ ret' = IF extract_weather_data(weather_data).kind = "Raise"
              THEN extract_weather_data(weather_data).exc ELSE ret
    /\ UNCHANGED fetchVars
    /\ UNCHANGED <<procs, variant, api_key, db_path, city, body, weather_data, processed_data,
                   save_result, store, store0, conns, env_file, saves>>

\* processed_data = process_weather_data(extracted_data, city)
PipelineValidate ==
    /\ variant = "pipeline" /\ pc = "validate"
    /\ \E ts \in 1..MaxTime :
         LET r == process_weather_data(extracted_data, city, ts)
         IN /\ processed_data' = r.rec
            /\ logs' = logs \o r.logs
            /\ pc' = IF r.kind = "Record" THEN "persist" ELSE "done"
            /\ ret' = CASE r.kind = "Record" -> ret
                        [] r.kind = "None" -> "None"
                        [] OTHER -> r.exc
    /\ events' = Append(events, StageEvent("validate"))
    /\ UNCHANGED fetchVars
    /\ UNCHANGED <<procs, variant, api_key, db_path, city, body, weather_data, extracted_data,
                   save_result, store, store0, conns, env_file, saves>>

\* save_to_sqlite(processed_data, db_path)
PipelinePersist ==
    /\ variant = "pipeline" /\ pc = "persist"
    /\ \E mode \in FailureModes :
         LET r == save_to_sqlite(processed_data, store, mode)
         IN /\ save_result' = r.result
            /\ store' = r.store
            /\ conns' \in OpenAfterSave(r.connected)
            /\ logs' = logs \o r.logs
            /\ saves' = LastTwo(Append(saves, SaveCall(processed_data, mode, store, r)))
            /\ ret' = IF r.result = "raise" THEN r.exc ELSE r.result
    /\ events' = Append(events, StageEvent("persist"))
    /\ pc' = "done"
    /\ UNCHANGED fetchVars
    /\ UNCHANGED <<procs, variant, api_key, db_path, city, body, weather_data, extracted_data,
                   processed_data, store0, env_file>>

NextPipeline == PipelineExtract \/ PipelineValidate \/ PipelinePersist

SpecPipeline == InitPipeline /\ [][NextPipeline]_vars

\* ------------------------------------------------------------------------
\* The orchestrators: hanoi_weather.main ("script") and
\* hanoi_weather_cli.main with weather_module.get_current_weather ("module")
\* ------------------------------------------------------------------------
\* a body response.json() cannot decode
Unparseable == NonDictBody("unparseable")

\* response.json() raises JSONDecodeError
JsonParseFailsNever(b) == FALSE

JsonParseFails(b) == b.shape = "unparseable"

\* the bodies one invocation may be answered with
OrchestratorBodies ==
    {ReferenceBody,
     [ReferenceBody EXCEPT !.main.humidity = Num(1500)],
     [ReferenceBody EXCEPT !.wind = WindAbsent("missing")],
     [ReferenceBody EXCEPT !.main.humidity = Val("inf", 1, "")],
     [ReferenceBody EXCEPT !.main.humidity = Val("bigint", 1, "")],
     [ReferenceBody EXCEPT !.weather = WeatherList("dict", Val("list", 1, ""))],
     [ReferenceBody EXCEPT !.name = Missing],
     [ReferenceBody EXCEPT !.main = MainAbsent("other")],
     NonDictBody("null")}

\* a 204 has no body; a 200 carries any body, decodable or not
BodiesFor(status) ==
    IF status = 200 THEN OrchestratorBodies \cup {Unparseable} ELSE {Unparseable}

\* what a JSONDecodeError leaves in the log: it is a json.JSONDecodeError or
\* not (simplejson), and a RequestException or not (requests before 2.27)
JsonErrorLogs ==
    {<<Log("error", "json_error"), Log("error", "fetch_failed"), Log("error", "request_failed")>>,
     <<Log("error", "json_error"), Log("critical", "unexpected_error")>>,
     <<Log("error", "fetch_failed"), Log("error", "request_failed")>>,
     <<Log("critical", "unexpected_error")>>}

\* hanoi_weather.save_to_sqlite tries to write a file beside the script before
\* it re-raises a sqlite3.Error, and logs how that went
WriteTestLogs(v) ==
    IF v = "script"
    THEN {<<Log("info", "directory_writable")>>, <<Log("error", "directory_not_writable")>>}
    ELSE {<<>>}

\* the except clauses of main and of get_current_weather: KeyError,
\* requests.exceptions.RequestException, sqlite3.Error, and Exception for
\* everything else
OrchestratorCatchesNamedOnly(exc) ==
    exc \in {"KeyError", "ConnectionError", "Timeout", "HTTPError", "OtherRequestException",
             "sqlite3.Error"}

OrchestratorCatches(exc) ==
    \/ exc \in {"KeyError", "ConnectionError", "Timeout", "HTTPError", "OtherRequestException",
                "sqlite3.Error"}
    \/ exc \in {"JSONDecodeError", "OverflowError", "OSError", "AttributeError", "TypeError",
                "ValueError"}

\* where an exception leaves the invocation: handled and logged, main returns
\* ("done"); not handled, the process ends with a traceback ("crashed")
Ended(exc) == IF OrchestratorCatches(exc) THEN "done" ELSE "crashed"

\* check_api_connection returns True
ProbeSucceededOnAnyResponse(state, status) == state = "returned"

ProbeSucceeded(state, status) == state = "returned" /\ status = 200

\* `if extracted_data:` / `if not extracted_data: return None`
AfterExtractUnguarded(ex) == "validate"

AfterExtract(ex) == IF ex = Absent THEN "done" ELSE "validate"

\* the store after a step that is not save_to_sqlite: load_config, the
\* probe, the fetch, extract and process are given no db_path and open no
\* connection
StoreAfterStageConnecting(st) == [st EXCEPT !.table = TRUE]

StoreAfterStage(st) == st

\* `if db_path:` of get_current_weather; main always has DB_PATH
ShouldPersistAlways(path) == TRUE

ShouldPersist(path) == path

\* what the invocation yields after save_to_sqlite raised sqlite3.Error:
\* get_current_weather catches it next to the call and goes on to
\* `return processed_data`; main catches it at the end and logs only
ReturnAfterStorageErrorNone(v) == "None"

ReturnAfterStorageError(v) == IF v = "module" THEN "record" ELSE "None"

\* `if processed_data:` / `if not processed_data: return None`
AfterValidate(kind) == IF kind = "Record" THEN "persist" ELSE "done"

Init ==
    /\ fpc = "idle"
    /\ caller = "none"
    /\ max_retries = 0
    /\ initial_delay = 0
    /\ retries = 0
    /\ delay = 0
    /\ response = 0
    /\ error = NoError
    /\ events = <<>>
    /\ logs = <<>>
    /\ variant \in {"script", "module"}
    /\ pc = "start"
    /\ api_key \in BOOLEAN
    /\ env_file \in (IF api_key THEN {TRUE} ELSE BOOLEAN)
    /\ db_path \in (IF variant = "script" THEN {TRUE} ELSE BOOLEAN)
    /\ city \in (IF variant = "script" THEN {"Hanoi"} ELSE {"Hanoi", "Hue"})
    /\ body = Absent
    /\ weather_data = Absent
    /\ extracted_data = Absent
    /\ processed_data = Absent
    /\ save_result = "none"
    /\ ret = "none"
    /\ store \in InitialStores
    /\ store0 = store
    /\ conns = 0
    /\ saves = <<>>
    /\ procs = <<>>

\* load_env_file, the sample .env, load_config
LoadConfig ==
    /\ variant \in {"script", "module"} /\ pc = "start"
    /\ store' = StoreAfterStage(store)
    /\ env_file' = TRUE
    /\ IF api_key
       THEN /\ pc' = "probe"
            /\ ret' = ret
            /\ logs' = Append(logs, Log("info", "config_loaded"))
       ELSE /\ pc' = IF variant = "module" /\ ~env_file THEN "done" ELSE Ended("KeyError")
            /\ ret' = "None"
            /\ logs' = IF env_file
                       THEN logs \o <<Log("critical", "api_key_missing"),
                                      Log("critical", "config_error")>>
                       ELSE IF variant = "script"
                       THEN logs \o <<Log("warning", "api_key_not_set"),
                                      Log("critical", "api_key_missing"),
                                      Log("critical", "config_error")>>
                       ELSE logs \o <<Log("warning", "api_key_not_set")>>
    /\ events' = events
    /\ UNCHANGED fetchVars
    /\ UNCHANGED <<procs, variant, api_key, db_path, city, body, weather_data, extracted_data,
                   processed_data, save_result, store0, conns, saves>>

\* check_api_connection calls fetch_with_retry(..., max_retries=2)
CallProbe ==
    /\ pc = "probe"
    /\ store' = StoreAfterStage(store)
    /\ CallFetchWithRetry("probe", PROBE_MAX_RETRIES, RETRY_DELAY)
    /\ events' = Append(events, StageEvent("probe"))
    /\ logs' = Append(logs, Log("info", "checking_api"))
    /\ pc' = "probing"
    /\ UNCHANGED <<procs, variant, api_key, db_path, city, body, weather_data, extracted_data,
                   processed_data, save_result, ret, store0, conns, env_file, saves>>

\* the rest of check_api_connection and the orchestrator's test of its result
ProbeDone ==
    /\ pc = "probing" /\ fpc \in {"returned", "raised"}
    /\ store' = StoreAfterStage(store)
    /\ fpc' = "idle"
    /\ IF ProbeSucceeded(fpc, response)
       THEN /\ pc' = "fetch"
            /\ ret' = ret
            /\ logs' = Append(logs, Log("info", "api_ok"))
       ELSE /\ pc' = "done"
            /\ ret' = "None"
            /\ logs' = logs \o <<Log("error", "api_check_failed"), Log("warning", "api_not_ready")>>
    /\ events' = events
    /\ UNCHANGED <<caller, max_retries, initial_delay, retries, delay, response, error>>
    /\ UNCHANGED <<procs, variant, api_key, db_path, city, body, weather_data, extracted_data,
                   processed_data, save_result, store0, conns, env_file, saves>>

\* fetch_weather_data calls fetch_with_retry(api_url, params)
CallFetch ==
    /\ pc = "fetch"
    /\ store' = StoreAfterStage(store)
    /\ CallFetchWithRetry("fetch", MAX_RETRIES, RETRY_DELAY)
    /\ events' = Append(events, StageEvent("fetch"))
    /\ logs' = Append(logs, Log("info", "fetching"))
    /\ pc' = "fetching"
    /\ UNCHANGED <<procs, variant, api_key, db_path, city, body, weather_data, extracted_data,
                   processed_data, save_result, ret, store0, conns, env_file, saves>>

\* the rest of fetch_weather_data: an exception of fetch_with_retry is logged
\* and re-raised to the orchestrator, which logs it and ends; a response is
\* decoded with response.json(), whose JSONDecodeError takes the same way
\* (the orchestrator catches it as a RequestException or as an Exception)
FetchDone ==
    /\ pc = "fetching" /\ fpc \in {"returned", "raised"}
    /\ store' = StoreAfterStage(store)
    /\ fpc' = "idle"
    /\ IF fpc = "raised"
       THEN /\ pc' = Ended(error.type)
            /\ ret' = "None"
            /\ error' = error
            /\ logs' = logs \o <<Log("error", "fetch_failed"), Log("error", "request_failed")>>
            /\ UNCHANGED <<body, weather_data>>
       ELSE \E b \in BodiesFor(response) :
              /\ body' = b
              /\ IF JsonParseFails(b)
                 THEN /\ pc' = Ended("JSONDecodeError")
                      /\ ret' = "None"
                      /\ error' = [type |-> "JSONDecodeError", status |-> 0]
                      /\ weather_data' = weather_data
                      /\ \E l \in JsonErrorLogs : logs' = logs \o l
                 ELSE /\ pc' = "extract"
                      /\ ret' = ret
                      /\ error' = error
                      /\ weather_data' = b
                      /\ logs' = Append(logs, Log("info", "fetched"))
    /\ events' = events
    /\ UNCHANGED <<caller, max_retries, initial_delay, retries, delay, response>>
    /\ UNCHANGED <<procs, variant, api_key, db_path, city, extracted_data,
                   processed_data, save_result, store0, conns, env_file, saves>>

\* extracted_data = extract_weather_data(weather_data), and the test of it
OrchExtract ==
    /\ variant \in {"script", "module"} /\ pc = "extract"
    /\ store' = StoreAfterStage(store)
    /\ extracted_data' = extract_weather_data(weather_data)
    /\ events' = Append(events, StageEvent("extract"))
    /\ CASE extract_weather_data(weather_data) = Absent ->
              /\ pc' = AfterExtract(Absent)
              /\ logs' = logs \o <<Log("error", "extract_failed"), Log("warning", "no_extracted_data")>>
              /\ ret' = IF AfterExtract(Absent) = "done" THEN "None" ELSE ret
         [] extract_weather_data(weather_data).kind = "Raise" ->
              /\ pc' = Ended(extract_weather_data(weather_data).exc)
              /\ logs' = Append(logs, Log("critical", "unexpected_error"))
              /\ ret' = "None"
         [] OTHER ->
              /\ pc' = AfterExtract(extract_weather_data(weather_data))
              /\ logs' = Append(logs, Log("info", "extracted"))
              /\ ret' = ret
    /\ UNCHANGED fetchVars
    /\ UNCHANGED <<procs, variant, api_key, db_path, city, body, weather_data,
                   processed_data, save_result, store0, conns, env_file, saves>>

\* processed_data = process_weather_data(extracted_data, city), and the test
\* of it; an exception it raises is caught by `except Exception`
OrchValidate ==
    /\ variant \in {"script", "module"} /\ pc = "validate"
    /\ store' = StoreAfterStage(store)
    /\ \E ts \in 1..MaxTime :
         LET r == process_weather_data(extracted_data, city, ts)
         IN /\ processed_data' = r.rec
            /\ pc' = IF r.kind = "Raise" THEN Ended(r.exc) ELSE AfterValidate(r.kind)
            /\ CASE r.kind = "Record" -> logs' = logs \o r.logs /\ ret' = ret
                 [] r.kind = "None" ->
                      /\ logs' = logs \o r.logs \o <<Log("warning", "invalid_data")>>
                      /\ ret' = "None"
                 [] OTHER ->
                      /\ logs' = logs \o r.logs \o <<Log("critical", "unexpected_error")>>
                      /\ ret' = "None"
    /\ events' = Append(events, StageEvent("validate"))
    /\ UNCHANGED fetchVars
    /\ UNCHANGED <<procs, variant, api_key, db_path, city, body, weather_data, extracted_data,
                   save_result, store0, conns, env_file, saves>>

\* get_current_weather without a db_path: `if db_path:` is false
SkipPersist ==
    /\ variant = "module" /\ pc = "persist" /\ ~ShouldPersist(db_path)
    /\ pc' = "done"
    /\ ret' = "record"
    /\ UNCHANGED fetchVars
    /\ UNCHANGED <<procs, events, logs, variant, api_key, db_path, city, body, weather_data,
                   extracted_data, processed_data, save_result, store, store0, conns,
                   env_file, saves>>

\* save_to_sqlite(processed_data, db_path) and the handling of its outcome:
\* main logs the current weather unless save_to_sqlite raised;
\* get_current_weather returns the record unless an exception other than
\* sqlite3.Error came out of save_to_sqlite
OrchPersist ==
    /\ variant \in {"script", "module"} /\ pc = "persist" /\ ShouldPersist(db_path)
    /\ \E mode \in FailureModes :
         LET r == save_to_sqlite(processed_data, store, mode)
         IN /\ save_result' = r.result
            /\ store' = r.store
            /\ conns' \in OpenAfterSave(r.connected)
            /\ saves' = LastTwo(Append(saves, SaveCall(processed_data, mode, store, r)))
            /\ pc' = IF r.result = "raise" THEN Ended(r.exc) ELSE "done"
            /\ CASE r.result = "True" ->
                      /\ logs' = logs \o r.logs \o <<Log("info", "saved_ok")>>
                      /\ ret' = "record"
                 [] r.result = "False" ->
                      /\ logs' = logs \o r.logs \o <<Log("warning", "not_saved")>>
                      /\ ret' = "record"
                 [] r.exc = "sqlite3.Error" ->
                      /\ \E l \in WriteTestLogs(variant) :
                           logs' = logs \o r.logs \o l \o <<Log("error", "database_error")>>
                      /\ ret' = ReturnAfterStorageError(variant)
                 [] OTHER ->
                      /\ logs' = logs \o r.logs \o <<Log("critical", "unexpected_error")>>
                      /\ ret' = "None"
    /\ events' = Append(events, StageEvent("persist"))
    /\ UNCHANGED fetchVars
    /\ UNCHANGED <<procs, variant, api_key, db_path, city, body, weather_data, extracted_data,
                   processed_data, store0, env_file>>

\* both orchestrators call fetch_with_retry with max_retries of 2 and 3, so
\* its loop is never left by its condition
Next ==
    \/ LoadConfig
    \/ CallProbe
    \/ Attempt
    \/ ProbeDone
    \/ CallFetch
    \/ FetchDone
    \/ OrchExtract
    \/ OrchValidate
    \/ SkipPersist
    \/ OrchPersist

Spec == Init /\ [][Next]_vars

\* one invocation run to its end: the orchestrator is a single sequential
\* thread, requests.get is given timeout=(5, 10), time.sleep returns and
\* sqlite3 gives up on a lock after its busy timeout, so a step that can be
\* taken is taken
SpecTerminating == Spec /\ WF_vars(Next)

\* ------------------------------------------------------------------------
\* two save_to_sqlite calls at once, each on its own connection to one file
\* ------------------------------------------------------------------------
\* the records the two calls are given: at every clock reading two well-typed
\* ones that differ in three fields, and at the first reading one whose
\* description cannot be bound
ConcurrentRecords ==
    {ProcessedRecord(ex, "Hanoi", ts) :
        ex \in {Sample(Num(700), Str("clear sky"), Str("Hanoi")),
                Sample(Num(1500), Str("light rain"), Str("Hue"))},
        ts \in 1..MaxTime}
    \cup {ProcessedRecord(Sample(Num(700), Val("list", 1, ""), Str("Hanoi")), "Hanoi", 1)}

\* one call: where it stands in save_to_sqlite, its data_dict, and how it ended
SaveProc(at, rec, result, exc) == [pc |-> at, rec |-> rec, result |-> result, exc |-> exc]

Other(p) == 3 - p

\* cursor.execute(insert_sql, ...) opens a transaction and takes the write lock
\* of the database file, held until conn.commit() or the rollback: p can take
\* it unless the other call stands between its INSERT and its commit
WriteLockFreeAlways(p) == TRUE

WriteLockFree(p) == procs[Other(p)].pc # "commit"

\* the other call may be in the middle of a statement, holding a read lock
MidStatement(q) == procs[q].pc \in {"schema", "insert"}

concurrentFrame ==
    <<fpc, caller, max_retries, initial_delay, retries, delay, response, error, events, logs,
      variant, pc, api_key, db_path, city, body, weather_data, extracted_data,
      processed_data, save_result, ret, store0, env_file, saves>>

InitConcurrent ==
    /\ fpc = "idle"
    /\ caller = "none"
    /\ max_retries = 0
    /\ initial_delay = 0
    /\ retries = 0
    /\ delay = 0
    /\ response = 0
    /\ error = NoError
    /\ events = <<>>
    /\ logs = <<>>
    /\ variant = "none"
    /\ pc = "none"
    /\ api_key = TRUE
    /\ db_path = TRUE
    /\ city = "Hanoi"
    /\ body = Absent
    /\ weather_data = Absent
    /\ extracted_data = Absent
    /\ processed_data = Absent
    /\ save_result = "none"
    /\ ret = "none"
    /\ env_file = TRUE
    /\ saves = <<>>
    /\ store \in InitialStores
    /\ store0 = store
    /\ conns = 0
    /\ \E r1, r2 \in ConcurrentRecords :
          procs = <<SaveProc("start", r1, "none", "none"), SaveProc("start", r2, "none", "none")>>

\* the call of p ends: return True, return False or raise; its connection
\* is not closed (OpenAfterSave)
Finish(p, result, exc) ==
    /\ procs' = [procs EXCEPT ![p] = SaveProc("done", procs[p].rec, result, exc)]
    /\ \E open \in OpenAfterSave(TRUE) : conns' = conns - 1 + open

\* sqlite3.connect(db_path)
Connect(p) ==
    /\ procs[p].pc = "start"
    /\ procs' = [procs EXCEPT ![p].pc = "schema"]
    /\ conns' = conns + 1
    /\ store' = store
    /\ UNCHANGED concurrentFrame

\* cursor.execute(create_table_sql); cursor.execute(create_index_sql): committed
\* at once, a statement that changes nothing when the schema is there
CreateSchema(p) ==
    /\ procs[p].pc = "schema"
    /\ procs' = [procs EXCEPT ![p].pc = "insert"]
    /\ store' = EnsureSchema(store)
    /\ conns' = conns
    /\ UNCHANGED concurrentFrame

\* cursor.execute(insert_sql, data_tuple): a parameter that cannot be bound
\* raises before any lock is asked for; with the write lock, the PRIMARY KEY
\* and NOT NULL constraints are checked against the committed rows
Insert(p) ==
    /\ procs[p].pc = "insert"
    /\ IF FirstBindError(procs[p].rec) # "none"
       THEN Finish(p, "raise", IF FirstBindError(procs[p].rec) = "ProgrammingError"
                               THEN "sqlite3.Error" ELSE FirstBindError(procs[p].rec))
       ELSE /\ WriteLockFree(p)
            /\ IF ConstraintViolated(procs[p].rec, store)
               THEN Finish(p, "False", "none")
               ELSE /\ procs' = [procs EXCEPT ![p].pc = "commit"]
                    /\ conns' = conns
    /\ store' = store
    /\ UNCHANGED concurrentFrame

\* the INSERT waits for the write lock longer than the connection's timeout
\* (5 s): sqlite3.OperationalError, database is locked
InsertTimeout(p) ==
    /\ procs[p].pc = "insert"
    /\ FirstBindError(procs[p].rec) = "none"
    /\ ~WriteLockFree(p)
    /\ Finish(p, "raise", "sqlite3.Error")
    /\ store' = store
    /\ UNCHANGED concurrentFrame

\* conn.commit(); return True
Commit(p) ==
    /\ procs[p].pc = "commit"
    /\ store' = [store EXCEPT !.rows = @ \cup {RowOf(procs[p].rec)}]
    /\ Finish(p, "True", "none")
    /\ UNCHANGED concurrentFrame

\* conn.commit() waits for a read lock of the other call longer than the
\* timeout: sqlite3.OperationalError, and the with block rolls the row back
CommitTimeout(p) ==
    /\ procs[p].pc = "commit"
    /\ MidStatement(Other(p))
    /\ Finish(p, "raise", "sqlite3.Error")
    /\ store' = store
    /\ UNCHANGED concurrentFrame

NextConcurrent ==
    \E p \in {1, 2} :
        \/ Connect(p)
        \/ CreateSchema(p)
        \/ Insert(p)
        \/ InsertTimeout(p)
        \/ Commit(p)
        \/ CommitTimeout(p)

SpecConcurrent == InitConcurrent /\ [][NextConcurrent]_vars

\* ------------------------------------------------------------------------
\* Observations on the log of one call
\* ------------------------------------------------------------------------
IsGet(e) == e.ev = "get"
IsSleep(e) == e.ev = "sleep"
Gets == SelectSeq(events, IsGet)
Sleeps == SelectSeq(events, IsSleep)

IsNetworkFailure(e) == IsGet(e) /\ e.type \in {"ConnectionError", "Timeout"}
IsServerError(e) == IsGet(e) /\ e.type = "Response" /\ e.n >= 500 /\ e.n < 600
IsClientError(e) == IsGet(e) /\ e.type = "Response" /\ e.n >= 400 /\ e.n < 500
IsSuccess(e) == IsGet(e) /\ e.type = "Response" /\ e.n < 400
IsTransient(e) == IsNetworkFailure(e) \/ IsServerError(e)

\* the k-th sleep lasts initial_delay * 2^(k-1)
SleepsDouble == \A k \in 1..Len(Sleeps) : Sleeps[k].n = initial_delay * 2^(k-1)

\* requests and sleeps alternate, a request first: a sleep stands before each
\* further request and nowhere else
SleepBeforeEachFurtherRequest ==
    \A i \in 1..Len(events) : IF i % 2 = 1 THEN IsGet(events[i]) ELSE IsSleep(events[i])

\* C1: when every attempt fails with a connection error or a timeout,
\* fetch_with_retry issues at most max_retries requests, sleeps before each
\* further request initial_delay, 2*initial_delay, 4*initial_delay, ..., never
\* returns a response, and once the budget is used it has failed.
C1_NetworkFailuresBounded ==
    (\A i \in 1..Len(Gets) : IsNetworkFailure(Gets[i])) =>
        /\ Len(Gets) <= max_retries
        /\ SleepBeforeEachFurtherRequest
        /\ SleepsDouble
        /\ fpc # "returned"
        /\ (Len(Gets) = max_retries /\ max_retries >= 1 => fpc = "raised")

C1_Witness ==
    /\ fpc = "raised"
    /\ max_retries = 3
    /\ initial_delay = 2
    /\ Len(Gets) = 3
    /\ \A i \in 1..Len(Gets) : IsNetworkFailure(Gets[i])
    /\ Len(Sleeps) = 2 /\ Sleeps[1].n = 2 /\ Sleeps[2].n = 4

\* C2: a 5xx response is handled as a connection error or timeout is: each
\* of them takes one unit of the one budget `retries`, each is followed by a
\* sleep exactly when budget is left after it, and the sleeps double whatever the
\* mix of the three, so there are at most max_retries requests.
C2_ServerErrorSameAsNetworkFailure ==
    /\ retries = Cardinality({i \in 1..Len(Gets) : IsTransient(Gets[i])})
    /\ Len(Gets) <= max_retries
    /\ SleepsDouble
    /\ \A i \in 1..Len(events) :
         IsTransient(events[i]) =>
            LET used == Cardinality({j \in 1..i : IsTransient(events[j])})
            IN IF used < max_retries
               THEN i < Len(events) /\ IsSleep(events[i + 1])
               ELSE i = Len(events) /\ fpc = "raised"
    /\ \A i \in 1..Len(events) : IsSleep(events[i]) => i > 1 /\ IsTransient(events[i - 1])

C2_Witness ==
    /\ fpc = "raised"
    /\ max_retries = 3
    /\ Len(Gets) = 3
    /\ IsServerError(Gets[1]) /\ IsNetworkFailure(Gets[2]) /\ IsServerError(Gets[3])
    /\ Len(Sleeps) = 2 /\ Sleeps[2].n = 2 * initial_delay

\* C3: a 4xx response ends the call at that attempt: it is the last event of
\* the call (no request and no sleep after it), the call has raised that
\* HTTPError, and a 4xx on the first attempt leaves zero sleeps.
C3_ClientErrorFailsAtOnce ==
    \A i \in 1..Len(events) :
        IsClientError(events[i]) =>
            /\ i = Len(events)
            /\ fpc = "raised"
            /\ error = [type |-> "HTTPError", status |-> events[i].n]
            /\ retries < max_retries
            /\ (i = 1 => Len(Sleeps) = 0)

C3_Witness ==
    /\ fpc = "raised"
    /\ max_retries = 3
    /\ Len(events) = 1
    /\ IsClientError(events[1]) /\ events[1].n = 404
    /\ Len(Sleeps) = 0

\* C4: after n < max_retries connection errors and nothing else the call has
\* slept n times and goes on to the next request; when that request succeeds
\* the call returns that response, having slept exactly initial_delay,
\* 2*initial_delay, ..., initial_delay*2^(n-1).
C4_SuccessAfterConnectionErrors ==
    LET n == Len(Gets) - 1
        errorsOnly(m) == \A i \in 1..m : Gets[i].type = "ConnectionError"
    IN /\ (errorsOnly(Len(Gets)) /\ Len(Gets) < max_retries) =>
             fpc = "loop" /\ Len(Sleeps) = Len(Gets)
       /\ (Len(Gets) >= 1 /\ errorsOnly(n) /\ IsSuccess(Gets[n + 1])) =>
             /\ n < max_retries
             /\ fpc = "returned"
             /\ response = Gets[n + 1].n
             /\ Len(Sleeps) = n
             /\ SleepsDouble
             /\ IsGet(events[Len(events)])

C4_Witness ==
    /\ fpc = "returned"
    /\ response = 200
    /\ max_retries = 3
    /\ Len(Gets) = 3
    /\ Gets[1].type = "ConnectionError" /\ Gets[2].type = "ConnectionError"
    /\ Len(Sleeps) = 2
    /\ Sleeps[1].n = initial_delay /\ Sleeps[2].n = 2 * initial_delay
    /\ initial_delay = 2

\* C5: when all max_retries attempts were used on retryable failures, the
\* exception raised is the dedicated one of the end of fetch_with_retry, not the
\* ConnectionError, Timeout or HTTPError of a single attempt.
C5_ExhaustionIsDistinguishable ==
    (/\ fpc = "raised"
     /\ Len(Gets) = max_retries
     /\ \A i \in 1..Len(Gets) : IsTransient(Gets[i]))
    => error = MaxRetriesError

\* ------------------------------------------------------------------------
\* Records as the data model types them
\* ------------------------------------------------------------------------
\* a ValidatedRecord with a non-empty string for the city, floating point
\* temperature, pressure and wind speed, an integer humidity and a string or
\* no description
WellTypedRecord(rec) ==
    /\ rec.city_name.k = "str" /\ rec.city_name.s # ""
    /\ rec.temperature_celsius.k \in {"num", "inf", "nan"}
    /\ rec.humidity_percent.k = "num" /\ rec.humidity_percent.n % 10 = 0
    /\ rec.pressure_hpa.k \in {"num", "inf", "nan"}
    /\ rec.wind_speed_mps.k \in {"num", "inf", "nan"}
    /\ rec.weather_description.k \in {"str", "null"}

RowsAt(ts) == {r \in store.rows : r.timestamp_utc = ts}

\* C10: two save_to_sqlite calls in a row with the same well-typed record, its
\* timestamp not stored before and the storage layer working, return True
\* (Inserted) and then False (AlreadyExists), neither raises, and the store then
\* holds exactly one row with that timestamp, the record's.
C10_PersistTwiceIsIdempotent ==
    (/\ Len(saves) = 2
     /\ saves[1].rec = saves[2].rec
     /\ WellTypedRecord(saves[1].rec)
     /\ saves[1].fresh
     /\ saves[1].mode = "none" /\ saves[2].mode = "none")
    => /\ saves[1].result = "True" /\ saves[1].exc = "none"
       /\ saves[2].result = "False" /\ saves[2].exc = "none"
       /\ Cardinality(RowsAt(saves[1].rec.timestamp_utc)) = 1
       /\ RowOf(saves[1].rec) \in store.rows

C10_Witness ==
    /\ Len(saves) = 2
    /\ saves[1].rec = saves[2].rec
    /\ WellTypedRecord(saves[1].rec)
    /\ saves[1].rec.humidity_percent = Num(1500)
    /\ saves[1].result = "True"
    /\ saves[2].result = "False"
    /\ save_result = "False"
    /\ Cardinality(RowsAt(saves[1].rec.timestamp_utc)) = 1

\* ------------------------------------------------------------------------
\* Observations on the validator
\* ------------------------------------------------------------------------
StageCalled(name) == \E i \in 1..Len(events) : events[i] = StageEvent(name)

\* values Python's float() accepts / int() accepts
FloatCoercible(v) == v.k \in {"num", "inf", "nan", "intstr", "decstr", "bool"}
IntCoercible(v) == v.k \in {"num", "bigint", "intstr", "bool"}

RequiredPresent(ex) ==
    /\ ex.temperature.k # "null" /\ ex.humidity.k # "null"
    /\ ex.pressure.k # "null" /\ ex.wind_speed.k # "null"

RequiredCoercible(ex) ==
    /\ FloatCoercible(ex.temperature) /\ IntCoercible(ex.humidity)
    /\ FloatCoercible(ex.pressure) /\ FloatCoercible(ex.wind_speed)

Usable(ex) == ex # Absent /\ RequiredPresent(ex) /\ RequiredCoercible(ex)

\* C8: process_weather_data returns None, and nothing is persisted, whenever
\* its input is None, one of temperature, humidity, pressure, wind_speed is
\* None, or one of the four cannot be coerced; a record exists only when all
\* four are present and coercible.
C8_ValidateReturnsAbsentOnUnusableInput ==
    StageCalled("validate") =>
        /\ ~Usable(extracted_data) =>
              /\ ret = "None"
              /\ processed_data = Absent
              /\ pc = "done" /\ ~StageCalled("persist") /\ saves = <<>>
        /\ processed_data # Absent => Usable(extracted_data)

\* What the code does keep of C8: on such an input no record is built and
\* nothing is persisted, but the call may end in an OverflowError instead of
\* returning None.
C8_NoRecordOnUnusableInput ==
    StageCalled("validate") =>
        /\ ~Usable(extracted_data) =>
              /\ ret \in {"None", "OverflowError"}
              /\ processed_data = Absent
              /\ pc = "done" /\ ~StageCalled("persist") /\ saves = <<>>
        /\ processed_data # Absent => Usable(extracted_data)

\* a finite number given as a JSON number
IsNumber(v) == v.k = "num"

\* C9: whenever the four required fields are present and coercible,
\* process_weather_data returns a record, in or out of the plausible ranges;
\* a measurement given as a number is carried as it is (humidity as its whole
\* part), never clamped or replaced; and such a record, well typed and saved
\* under a new timestamp with the storage layer working, is stored as it is.
C9_OutOfRangeStillRecorded ==
    (StageCalled("validate") /\ Usable(extracted_data)) =>
        /\ processed_data # Absent
        /\ processed_data.kind = "Record"
        /\ IsNumber(extracted_data.temperature) =>
              processed_data.temperature_celsius = extracted_data.temperature
        /\ IsNumber(extracted_data.pressure) =>
              processed_data.pressure_hpa = extracted_data.pressure
        /\ IsNumber(extracted_data.wind_speed) =>
              processed_data.wind_speed_mps = extracted_data.wind_speed
        /\ (IsNumber(extracted_data.humidity) /\ extracted_data.humidity.n % 10 = 0) =>
              processed_data.humidity_percent = extracted_data.humidity
        /\ IsNumber(extracted_data.humidity) =>
              /\ processed_data.humidity_percent.k = "num"
              /\ processed_data.humidity_percent.n % 10 = 0
              /\ extracted_data.humidity.n - processed_data.humidity_percent.n \in -9..9
        /\ pc # "validate" /\ (pc = "done" => StageCalled("persist"))
        /\ (/\ Len(saves) = 1 /\ saves[1].mode = "none" /\ saves[1].fresh
            /\ WellTypedRecord(processed_data)) =>
              /\ save_result = "True"
              /\ RowsAt(processed_data.timestamp_utc) = {RowOf(processed_data)}
              /\ \A r \in RowsAt(processed_data.timestamp_utc) :
                    r.humidity_percent = processed_data.humidity_percent

C9_Witness ==
    /\ pc = "done"
    /\ body = [ReferenceBody EXCEPT !.main.humidity = Num(1500)]
    /\ processed_data # Absent
    /\ processed_data.humidity_percent = Num(1500)
    /\ Log("warning", "humidity") \in {logs[i] : i \in 1..Len(logs)}
    /\ save_result = "True"
    /\ \E r \in store.rows : r.humidity_percent = Num(1500)

\* ------------------------------------------------------------------------
\* Observations on one invocation of an orchestrator
\* ------------------------------------------------------------------------
IsStage(e) == e.ev = "stage"
Stages == SelectSeq(events, IsStage)
StageOrder == <<"probe", "fetch", "extract", "validate", "persist">>

IsProbeGet(e) == IsGet(e) /\ e.who = "probe"
IsFetchGet(e) == IsGet(e) /\ e.who = "fetch"
ProbeGets == SelectSeq(events, IsProbeGet)
FetchGets == SelectSeq(events, IsFetchGet)

\* C6: when a request of fetch_weather_data is answered with a success status
\* and a body that is not JSON, that request is the last thing the invocation
\* does on the network (no further request, no sleep), the JSONDecodeError ends
\* the invocation, no stage after fetch runs, no record is produced and the
\* store is as the invocation found it.
C6_MalformedBodyFailsAtOnce ==
    body = Unparseable =>
        /\ pc = "done" /\ fpc = "idle"
        /\ IsSuccess(events[Len(events)])
        /\ events[Len(events)].who = "fetch"
        /\ events[Len(events)].n = response
        /\ error.type = "JSONDecodeError"
        /\ ret = "None"
        /\ weather_data = Absent /\ extracted_data = Absent /\ processed_data = Absent
        /\ ~StageCalled("extract") /\ ~StageCalled("validate") /\ ~StageCalled("persist")
        /\ saves = <<>>
        /\ store = store0

C6_Witness ==
    /\ body = Unparseable
    /\ response = 200
    /\ pc = "done"
    /\ Len(FetchGets) = 2
    /\ IsTransient(FetchGets[1])
    /\ store0.rows # {}
    /\ db_path

\* C7: the stages called are a prefix of probe, fetch, extract, validate,
\* persist (fixed order, each at most once); fetch is called only after the
\* probe got a 200, extract only on the body fetch returned, validate only on
\* the fields extract returned, persist only once and only with the record
\* process_weather_data returned, none of them on None.
C7_StagesInOrder ==
    /\ Len(Stages) <= Len(StageOrder)
    /\ \A i \in 1..Len(Stages) : Stages[i].type = StageOrder[i]
    /\ StageCalled("fetch") =>
          /\ Len(ProbeGets) >= 1
          /\ ProbeGets[Len(ProbeGets)].type = "Response"
          /\ ProbeGets[Len(ProbeGets)].n = 200
    /\ StageCalled("extract") =>
          /\ Len(FetchGets) >= 1 /\ IsSuccess(FetchGets[Len(FetchGets)])
          /\ body # Absent /\ body # Unparseable
          /\ weather_data = body
    /\ StageCalled("validate") =>
          /\ extracted_data # Absent
          /\ extracted_data = extract_weather_data(weather_data)
    /\ StageCalled("persist") =>
          /\ db_path
          /\ processed_data # Absent
          /\ processed_data.kind = "Record"
          /\ \E ts \in 1..MaxTime :
                processed_data = process_weather_data(extracted_data, city, ts).rec
          /\ Len(saves) = 1
          /\ saves[1].rec = processed_data
    /\ saves # <<>> => StageCalled("persist")

C7_Witness ==
    /\ pc = "done"
    /\ Len(Stages) = 5
    /\ Stages[5].type = "persist"
    /\ variant = "script"
    /\ save_result = "True"
    /\ saves[1].rec = processed_data

\* ------------------------------------------------------------------------
\* Observations on the store
\* ------------------------------------------------------------------------
UniqueTimestamps == \A r1, r2 \in store.rows : r1.timestamp_utc = r2.timestamp_utc => r1 = r2

\* C11: over any sequence of save_to_sqlite calls the store never holds two
\* rows with one timestamp, and every step keeps every row it found, with its
\* contents, and the table once it exists: rows are only added.
C11_StoreIsAppendOnly ==
    /\ []UniqueTimestamps
    /\ [][/\ store.rows \subseteq store'.rows
          /\ (store.table => store'.table)]_vars

C11_Witness ==
    /\ Len(saves) = 2
    /\ saves[1].result = "True"
    /\ saves[2].result = "False"
    /\ ~saves[2].fresh
    /\ saves[2].rec # saves[1].rec
    /\ saves[2].rec.timestamp_utc = saves[1].rec.timestamp_utc
    /\ Cardinality(store.rows) = 2
    /\ UniqueTimestamps

\* C12: a save_to_sqlite call that returns False or raises leaves the store
\* exactly as it was before the call.
C12_FailedSaveLeavesStoreAsItWas ==
    [][save_result' # "True" => store' = store]_vars

\* C12, amended: a save_to_sqlite call that returns False or raises leaves
\* the rows exactly as they were (an existing table is untouched; a table that
\* did not exist may have been created empty by the schema step), and a call
\* that returns True adds exactly the row of its record.
C12_FailedSaveLeavesRows ==
    [][/\ save_result' # "True" =>
             /\ store'.rows = store.rows
             /\ (store.table => store' = store)
       /\ save_result' = "True" =>
             store'.rows = store.rows \cup {RowOf(processed_data')}]_vars

C12_Witness ==
    /\ Len(saves) = 2
    /\ saves[1].result = "True"
    /\ saves[1].rec.humidity_percent = Num(700)
    /\ saves[2].result = "False"
    /\ saves[2].rec.timestamp_utc = saves[1].rec.timestamp_utc
    /\ saves[2].rec.humidity_percent = Num(1500)
    /\ store.rows = {RowOf(saves[1].rec)}
    /\ \A r \in store.rows : r.humidity_percent = Num(700)

\* ------------------------------------------------------------------------
\* Observations on the end of an invocation
\* ------------------------------------------------------------------------
Logged(level, tag) == \E i \in 1..Len(logs) : logs[i] = Log(level, tag)
LoggedAt(level) == \E i \in 1..Len(logs) : logs[i][1] = level

\* C13: when save_to_sqlite raises (a storage failure that is no duplicate
\* timestamp), the insert was tried once, the invocation is over, the failure
\* is in the log at error level or above, and the invocation reports no
\* record.
C13_StorageFailureEndsCycleAsFailure ==
    (StageCalled("persist") /\ save_result = "raise") =>
        /\ Len(saves) = 1
        /\ pc = "done"
        /\ LoggedAt("error") \/ LoggedAt("critical")
        /\ ret = "None"

\* ------------------------------------------------------------------------
\* Observations on the extractor
\* ------------------------------------------------------------------------
\* a body the lookups cannot be made on: no JSON object, a main or wind that
\* is there but is no object, a weather that is a non-empty object or a
\* non-zero number
Unresolvable(b) ==
    \/ b.shape # "dict"
    \/ b.main.g = "other"
    \/ b.wind.g = "other"
    \/ b.weather.w \in {"dict", "scalar"}

SixFields(ex) ==
    /\ ex.kind = "Extracted"
    /\ DOMAIN ex = {"kind", "temperature", "humidity", "pressure", "wind_speed",
                    "description", "city_name"}

\* C14: extract_weather_data never raises and on every body, malformed or
\* partial, returns a six-field record with null for what is missing.
C14_ExtractAlwaysReturnsFields ==
    StageCalled("extract") => SixFields(extracted_data)

\* C14, amended: extract_weather_data never raises; it returns None on a
\* body the lookups cannot be made on, and on every other body a six-field
\* record with null for each piece of data that is missing.
C14_ExtractNeverRaises ==
    StageCalled("extract") =>
        /\ extracted_data.kind \in {"Extracted", "None"}
        /\ ret \notin {"AttributeError", "KeyError", "TypeError"}
        /\ extracted_data = Absent <=> Unresolvable(body)
        /\ ~Unresolvable(body) =>
              /\ SixFields(extracted_data)
              /\ body.main.temp.k = "missing" => extracted_data.temperature = Null
              /\ body.main.humidity.k = "missing" => extracted_data.humidity = Null
              /\ body.main.pressure.k = "missing" => extracted_data.pressure = Null
              /\ body.wind.speed.k = "missing" => extracted_data.wind_speed = Null
              /\ body.weather.w # "list" => extracted_data.description = Null
              /\ body.name.k = "missing" => extracted_data.city_name = Null

C14_Witness ==
    /\ StageCalled("extract")
    /\ body.shape = "dict"
    /\ body.main.g = "other"
    /\ body.wind.g = "dict" /\ body.wind.speed = Num(32)
    /\ extracted_data = Absent
    /\ pc = "done"

\* a JSON object in which main and wind are each left out or an object and
\* weather is left out, empty or a list of objects
PartialBody(b) ==
    /\ b.shape = "dict"
    /\ b.main.g \in {"missing", "dict"}
    /\ b.wind.g \in {"missing", "dict"}
    /\ b.weather.w \in {"missing", "falsy"} \/ (b.weather.w = "list" /\ b.weather.first.d = "dict")

\* the field is null when the body has no value for it, and the body's value
\* otherwise
FieldTakenFrom(field, v) == IF v.k = "missing" THEN field = Null ELSE field = v

\* C15: on a body with a missing main, a missing wind, a missing key in a
\* group, a missing or empty weather list or a missing name,
\* extract_weather_data returns six fields, null exactly where the body has no
\* value and the body's value everywhere else.
C15_MissingDataYieldsNullFields ==
    (StageCalled("extract") /\ PartialBody(body)) =>
        /\ SixFields(extracted_data)
        /\ FieldTakenFrom(extracted_data.temperature, body.main.temp)
        /\ FieldTakenFrom(extracted_data.humidity, body.main.humidity)
        /\ FieldTakenFrom(extracted_data.pressure, body.main.pressure)
        /\ FieldTakenFrom(extracted_data.wind_speed, body.wind.speed)
        /\ FieldTakenFrom(extracted_data.city_name, body.name)
        /\ IF body.weather.w = "list"
           THEN FieldTakenFrom(extracted_data.description, body.weather.first.description)
           ELSE extracted_data.description = Null

C15_Witness ==
    /\ StageCalled("extract")
    /\ body.shape = "dict"
    /\ body.main.g = "missing"
    /\ body.wind = WindGroup(Num(32))
    /\ body.weather = ClearSky
    /\ body.name = Missing
    /\ extracted_data.temperature = Null
    /\ extracted_data.wind_speed = Num(32)
    /\ extracted_data.description = Str("clear sky")
    /\ extracted_data.city_name = Null

\* ------------------------------------------------------------------------
\* Observations on the city name
\* ------------------------------------------------------------------------
\* the source reported a name: the body has one and it is not empty
Reported(v) == v.k # "null" /\ v # Str("")

CityNameFollowsSource ==
    /\ Reported(extracted_data.city_name) => processed_data.city_name = extracted_data.city_name
    /\ ~Reported(extracted_data.city_name) => processed_data.city_name = Str(city)

MismatchWarningExact ==
    Logged("warning", "city_mismatch")
        <=> (extracted_data.city_name = Null \/ extracted_data.city_name # Str(city))

\* C16: in every record process_weather_data returns, city_name is the
\* reported name when there is one and expected_city otherwise, it is a
\* non-empty string, and the mismatch warning is logged exactly when the
\* reported name is absent or differs from expected_city.
C16_CityNameIsReportedOrExpected ==
    (StageCalled("validate") /\ processed_data # Absent) =>
        /\ CityNameFollowsSource
        /\ processed_data.city_name.k = "str" /\ processed_data.city_name.s # ""
        /\ MismatchWarningExact

\* What the code keeps of C16: the choice between the reported and the
\* expected name and the warning, but not that the name is a string.
C16_CityNameChoiceAndWarning ==
    (StageCalled("validate") /\ processed_data # Absent) =>
        CityNameFollowsSource /\ MismatchWarningExact

\* ------------------------------------------------------------------------
\* Observations on the whole pipeline
\* ------------------------------------------------------------------------
\* a body that carries all six pieces of data, typed as the reference body
\* types them: numbers for the measurements (a whole number for the
\* humidity), strings for the description and the name
CompleteBody(b) ==
    /\ b.shape = "dict"
    /\ b.main.g = "dict"
    /\ b.main.temp.k = "num"
    /\ b.main.humidity.k = "num" /\ b.main.humidity.n % 10 = 0
    /\ b.main.pressure.k = "num"
    /\ b.wind.g = "dict" /\ b.wind.speed.k = "num"
    /\ b.weather.w = "list" /\ b.weather.first.d = "dict"
    /\ b.weather.first.description.k = "str"
    /\ b.name.k = "str" /\ b.name.s # ""

\* C17: on a complete body and a store without rows, extract, validate and
\* persist all run, and with the storage layer working save_to_sqlite returns
\* True on its one call and the store then holds exactly one row, whose six
\* values are those of the body.
C17_CompleteBodyIsStored ==
    (CompleteBody(body) /\ store0.rows = {} /\ pc = "done") =>
        /\ StageCalled("extract") /\ StageCalled("validate") /\ StageCalled("persist")
        /\ Len(saves) = 1
        /\ saves[1].mode = "none" =>
              /\ save_result = "True"
              /\ Cardinality(store.rows) = 1
              /\ \A r \in store.rows :
                    /\ r.temperature_celsius = body.main.temp
                    /\ r.humidity_percent = body.main.humidity
                    /\ r.pressure_hpa = body.main.pressure
                    /\ r.wind_speed_mps = body.wind.speed
                    /\ r.weather_description = body.weather.first.description
                    /\ r.city_name = body.name
                    /\ r.timestamp_utc = processed_data.timestamp_utc

C17_Witness ==
    /\ body = ReferenceBody
    /\ city = "Hanoi"
    /\ store0 = NoStore
    /\ pc = "done"
    /\ save_result = "True"
    /\ store.rows = {[timestamp_utc |-> processed_data.timestamp_utc,
                      city_name |-> Str("Hanoi"),
                      temperature_celsius |-> Num(285),
                      humidity_percent |-> Num(700),
                      pressure_hpa |-> Num(10080),
                      wind_speed_mps |-> Num(32),
                      weather_description |-> Str("clear sky")]}

\* C18: no exception leaves hanoi_weather.main, hanoi_weather_cli.main or
\* get_current_weather: whatever a stage does, the invocation never ends in
\* an unhandled exception, and one that ended without a record has the reason
\* in the log at warning level or above.
C18_NoExceptionEscapes ==
    /\ pc # "crashed"
    /\ (pc = "done" /\ ret = "None") =>
          LoggedAt("warning") \/ LoggedAt("error") \/ LoggedAt("critical")
    /\ (pc = "done" /\ save_result \in {"False", "raise"}) =>
          LoggedAt("warning") \/ LoggedAt("error") \/ LoggedAt("critical")

C18_Witness ==
    /\ pc = "done"
    /\ variant = "script"
    /\ StageCalled("persist")
    /\ save_result = "raise"
    /\ saves[1].exc = "OSError"
    /\ Logged("critical", "unexpected_error")
    /\ store = store0

\* C19: without an API key the invocation ends at the configuration step:
\* load_config fails and the failure is logged at critical level, no request
\* is made (neither probe nor fetch), no stage runs and the store is not
\* written.
C19_MissingKeyIsTerminal ==
    (~api_key /\ pc # "start") =>
        /\ pc = "done"
        /\ Logged("critical", "api_key_missing")
        /\ events = <<>>
        /\ saves = <<>>
        /\ store = store0
        /\ ret = "None"

\* What the code keeps of C19: the invocation ends with no request and no
\* write, and something is logged, but not always at critical level.
C19_MissingKeyMakesNoRequest ==
    (~api_key /\ pc # "start") =>
        /\ pc = "done"
        /\ Logged("critical", "api_key_missing") \/ Logged("warning", "api_key_not_set")
        /\ events = <<>>
        /\ saves = <<>>
        /\ store = store0
        /\ ret = "None"

\* the probe is over and did not end on a 200
ProbeFailed ==
    /\ StageCalled("probe")
    /\ pc # "probing"
    /\ ~(/\ Len(ProbeGets) >= 1
         /\ ProbeGets[Len(ProbeGets)].type = "Response"
         /\ ProbeGets[Len(ProbeGets)].n = 200)

\* C20: check_api_connection makes at most 2 requests where the fetch makes
\* at most 3, and after a probe that did not succeed the invocation is over:
\* no request of the fetch, no stage after the probe, no record, the store as
\* it was found.
C20_ProbeHasSmallerBudgetAndGates ==
    /\ PROBE_MAX_RETRIES < MAX_RETRIES
    /\ caller = "probe" => max_retries = 2
    /\ caller = "fetch" => max_retries = 3
    /\ Len(ProbeGets) <= 2
    /\ Len(FetchGets) <= 3
    /\ ProbeFailed =>
          /\ pc = "done"
          /\ Stages = <<StageEvent("probe")>>
          /\ FetchGets = <<>>
          /\ saves = <<>>
          /\ store = store0
          /\ ret = "None"

C20_Witness ==
    /\ ProbeFailed
    /\ pc = "done"
    /\ Len(ProbeGets) = 2
    /\ IsTransient(ProbeGets[1]) /\ IsTransient(ProbeGets[2])
    /\ Len(Sleeps) = 1
    /\ store0.rows # {}
    /\ Logged("warning", "api_not_ready")

\* C21: get_current_weather called without a db_path never calls
\* save_to_sqlite, opens no connection and leaves the store as it found it
\* (no file, no table, no row), while probe, fetch, extract and validate run
\* as ever and a validated record is what the call returns.
C21_NoSaveModeLeavesStore ==
    (variant = "module" /\ ~db_path) =>
        /\ ~StageCalled("persist")
        /\ saves = <<>>
        /\ save_result = "none"
        /\ conns = 0
        /\ store = store0
        /\ (pc = "done" /\ StageCalled("validate") /\ processed_data # Absent) =>
              /\ ret = "record"
              /\ Len(Stages) = 4
              /\ \A i \in 1..4 : Stages[i].type = StageOrder[i]
        /\ ret = "record" => pc = "done" /\ processed_data.kind = "Record"

C21_Witness ==
    /\ variant = "module"
    /\ ~db_path
    /\ pc = "done"
    /\ ret = "record"
    /\ body = ReferenceBody
    /\ processed_data.humidity_percent = Num(700)
    /\ store0 = NoStore
    /\ store = NoStore
    /\ Len(Stages) = 4

\* ------------------------------------------------------------------------
\* Observations on the range warnings
\* ------------------------------------------------------------------------
\* the value is below lo or above hi (whole units); an infinity or an
\* integer beyond the floats is, a NaN compares as neither
StrictlyOutside(v, lo, hi) ==
    \/ v.k = "num" /\ (v.n < lo * 10 \/ v.n > hi * 10)
    \/ v.k \in {"inf", "bigint"}

\* C22: for every record process_weather_data returns, each of the four
\* range warnings is in the log exactly when that coerced value is below the
\* lower or above the upper bound of its range, the bounds themselves giving
\* no warning, each measurement on its own; and the record is returned with
\* or without warnings.
C22_RangeWarningsExact ==
    /\ (StageCalled("validate") /\ processed_data # Absent) =>
          /\ Logged("warning", "temperature")
                <=> StrictlyOutside(processed_data.temperature_celsius, -100, 100)
          /\ Logged("warning", "humidity")
                <=> StrictlyOutside(processed_data.humidity_percent, 0, 100)
          /\ Logged("warning", "pressure")
                <=> StrictlyOutside(processed_data.pressure_hpa, 800, 1200)
          /\ Logged("warning", "wind_speed")
                <=> StrictlyOutside(processed_data.wind_speed_mps, 0, 200)
    /\ (StageCalled("validate") /\ Usable(extracted_data)) => processed_data # Absent
    /\ (StageCalled("validate") /\ processed_data = Absent) =>
          ~\E f \in {"temperature", "humidity", "pressure", "wind_speed"} : Logged("warning", f)

C22_Witness ==
    /\ StageCalled("validate")
    /\ processed_data # Absent
    /\ processed_data.temperature_celsius = Num(1000)
    /\ processed_data.humidity_percent = Num(1000)
    /\ processed_data.pressure_hpa = Num(7999)
    /\ processed_data.wind_speed_mps = Num(2001)
    /\ ~Logged("warning", "temperature")
    /\ ~Logged("warning", "humidity")
    /\ Logged("warning", "pressure")
    /\ Logged("warning", "wind_speed")

\* ------------------------------------------------------------------------
\* Observations on who writes the store
\* ------------------------------------------------------------------------
\* C23: in an invocation the store differs from what it was only after
\* save_to_sqlite was called, and the one step that changes it is the call of
\* save_to_sqlite: load_config, the probe, fetch_with_retry,
\* fetch_weather_data, extract_weather_data and process_weather_data leave it
\* alone whether they succeed, retry or fail.
C23_OnlyPersistChangesStore ==
    /\ [](~StageCalled("persist") => store = store0)
    /\ [][store' # store =>
            /\ pc = "persist"
            /\ Len(saves') = Len(saves) + 1]_vars

C23_Witness ==
    /\ pc = "done"
    /\ ret = "None"
    /\ StageCalled("validate")
    /\ ~StageCalled("persist")
    /\ Len(ProbeGets) = 2
    /\ Len(FetchGets) = 3
    /\ store0.rows # {}
    /\ store = store0

\* C24: when the invocation has ended, no store connection opened by
\* save_to_sqlite is still open, whichever way the save ended
C24_NoConnectionLeftOpen ==
    (variant \in {"script", "module"} /\ pc \in {"done", "crashed"}) => conns = 0

\* an invocation that ended after an Inserted save with the connection open
C24_OpenAfterInserted ==
    variant \in {"script", "module"} /\ pc = "done" /\ save_result = "True" /\ conns = 1

\* C25: when all max_retries attempts (max_retries >= 1) failed with
\* retryable errors, the caller gets the error of the last attempt, exactly
\* max_retries - 1 sleeps were performed, and none after the last attempt
C25_ExhaustionRaisesLastError ==
    (/\ fpc = "raised"
     /\ max_retries >= 1
     /\ Len(Gets) = max_retries
     /\ \A i \in 1..Len(Gets) : IsTransient(Gets[i]))
    => LET last == Gets[Len(Gets)]
       IN /\ error.type = (IF last.type = "Response" THEN "HTTPError" ELSE last.type)
          /\ error.status = last.n
          /\ Len(Sleeps) = max_retries - 1
          /\ IsGet(events[Len(events)])
          /\ retries = max_retries

\* three failed attempts, the last a 503 after two different failures
C25_Witness ==
    /\ fpc = "raised"
    /\ max_retries = 3
    /\ Len(Gets) = 3
    /\ Gets[1].type = "Timeout" /\ IsServerError(Gets[2]) /\ Gets[2].n = 500
    /\ IsServerError(Gets[3]) /\ Gets[3].n = 503
    /\ error = [type |-> "HTTPError", status |-> 503]
    /\ Len(Sleeps) = 2

\* ------------------------------------------------------------------------
\* Termination of an invocation
\* ------------------------------------------------------------------------
Terminated == pc \in {"done", "crashed"}
IsProbeSleep(e) == IsSleep(e) /\ e.who = "probe"
IsFetchSleep(e) == IsSleep(e) /\ e.who = "fetch"
ProbeSleeps == SelectSeq(events, IsProbeSleep)
FetchSleeps == SelectSeq(events, IsFetchSleep)

\* at most 2 requests and one sleep of RETRY_DELAY in the probe, at most 3
\* requests and sleeps of RETRY_DELAY and 2 * RETRY_DELAY in the fetch, and
\* every request of the fetch after every request of the probe
NetworkBudgetKept ==
    /\ Len(ProbeGets) <= 2
    /\ Len(FetchGets) <= 3
    /\ Len(Gets) <= 5
    /\ Len(Gets) = Len(ProbeGets) + Len(FetchGets)
    /\ Len(Sleeps) <= 3
    /\ Len(Sleeps) = Len(ProbeSleeps) + Len(FetchSleeps)
    /\ Len(ProbeSleeps) <= 1
    /\ Len(FetchSleeps) <= 2
    /\ \A k \in 1..Len(ProbeSleeps) : ProbeSleeps[k].n = RETRY_DELAY
    /\ \A k \in 1..Len(FetchSleeps) : FetchSleeps[k].n = k * RETRY_DELAY
    /\ \A i, j \in 1..Len(events) :
          IsProbeGet(events[i]) /\ IsFetchGet(events[j]) => i < j

\* C26: every invocation of an orchestrator terminates, whatever the network
\* and the store answer, after at most 5 requests (2 of the probe, then 3 of
\* the fetch) and at most 3 sleeps (RETRY_DELAY in the probe; RETRY_DELAY and
\* 2 * RETRY_DELAY in the fetch), the fetch's requests after the probe's
C26_InvocationTerminates ==
    /\ []NetworkBudgetKept
    /\ <>Terminated
    /\ [](Terminated => fpc \in {"idle"})

\* an ended invocation that used the whole budget: 5 requests and 3 sleeps
C26_Witness ==
    /\ Terminated
    /\ Len(ProbeGets) = 2 /\ Len(FetchGets) = 3
    /\ Len(Sleeps) = 3
    /\ IsTransient(FetchGets[3])

\* ------------------------------------------------------------------------
\* The two orchestrators side by side
\* ------------------------------------------------------------------------
IsNetwork(e) == IsGet(e) \/ IsSleep(e)
NetworkEvents == SelectSeq(events, IsNetwork)

\* the requests g of one fetch_with_retry call with the sleeps between them
WithSleeps(g, who) ==
    [i \in 1..(2 * Len(g) - 1) |->
        IF i % 2 = 1 THEN g[(i + 1) \div 2]
        ELSE SleepEvent(who, RETRY_DELAY * 2^((i \div 2) - 1))]

\* g is a whole call: every request but the last failed transiently, and the
\* last one succeeded, failed for good or used up the budget
WholeCall(g, budget) ==
    /\ Len(g) >= 1 /\ Len(g) <= budget
    /\ \A k \in 1..(Len(g) - 1) : IsTransient(g[k])
    /\ ~IsTransient(g[Len(g)]) \/ Len(g) = budget

Validated == processed_data # Absent /\ processed_data.kind = "Record"
StoreFailed == saves # <<>> /\ saves[1].result = "raise"

\* what an ended invocation did on the network and to the store, told from
\* the outcomes of its stages alone, without looking at which orchestrator ran
SameRequestsAndStore ==
    /\ NetworkEvents = WithSleeps(ProbeGets, "probe") \o WithSleeps(FetchGets, "fetch")
    /\ api_key <=> Len(ProbeGets) >= 1
    /\ api_key => WholeCall(ProbeGets, PROBE_MAX_RETRIES)
    /\ Len(FetchGets) >= 1 <=>
          (api_key /\ ProbeGets[Len(ProbeGets)].type = "Response"
                   /\ ProbeGets[Len(ProbeGets)].n = 200)
    /\ Len(FetchGets) >= 1 => WholeCall(FetchGets, MAX_RETRIES)
    /\ Validated <=> saves # <<>>
    /\ saves = <<>> => store = store0
    /\ (saves # <<>> /\ ~StoreFailed) =>
          /\ store.table
          /\ store.rows = IF processed_data.timestamp_utc \in Timestamps(store0)
                          THEN store0.rows
                          ELSE store0.rows \cup {RowOf(processed_data)}
    /\ ~StoreFailed => ret = (IF Validated THEN "record" ELSE "None")

\* C27: with the city 'Hanoi' and a database path given to both, main and
\* get_current_weather issue the same requests and sleeps for the same
\* outcomes and leave the same store (the same row inserted, or none) as long
\* as the store does not fail; when save_to_sqlite raises sqlite3.Error,
\* get_current_weather still returns the validated record and main does not
C27_OrchestratorsAgreeWithStore ==
    (Terminated /\ city = "Hanoi" /\ db_path) =>
        /\ SameRequestsAndStore
        /\ (StoreFailed /\ saves[1].exc = "sqlite3.Error") =>
              ret = (IF variant = "module" THEN "record" ELSE "None")
        /\ (StoreFailed /\ saves[1].exc # "sqlite3.Error") => ret = "None"

\* C27 as stated, for every call with the city 'Hanoi': the same requests,
\* sleeps and store unless the store fails, and after every storage failure
\* get_current_weather returns the validated record
C27_OrchestratorsAgree ==
    (Terminated /\ city = "Hanoi") =>
        /\ SameRequestsAndStore
        /\ (StoreFailed /\ variant = "module") => ret = "record"

\* get_current_weather after a retried probe and a retried fetch, the row
\* inserted as main would insert it
C27_Witness ==
    /\ Terminated /\ city = "Hanoi" /\ db_path
    /\ variant = "module"
    /\ Len(ProbeGets) = 2 /\ Len(FetchGets) = 2
    /\ save_result = "True"
    /\ store.rows = store0.rows \cup {RowOf(processed_data)}
    /\ store.rows # store0.rows

\* ------------------------------------------------------------------------
\* Observations on the humidity of a record
\* ------------------------------------------------------------------------
\* r (tenths) is h (tenths) cut to a whole number toward zero
TowardZero(h, r) ==
    /\ r % 10 = 0
    /\ h >= 0 => r <= h /\ h - r < 10
    /\ h <= 0 => r >= h /\ r - h < 10

\* C28: process_weather_data cuts the humidity toward zero to an integer
\* before the range check and before it goes into the record: the record's
\* humidity_percent is always an integer, the humidity warning is decided on
\* the integer, and a humidity strictly between 100 and 101 (between -1 and 0)
\* gives a record with 100 (with 0) and no humidity warning.
C28_HumidityTruncatedBeforeCheck ==
    /\ (StageCalled("validate") /\ processed_data # Absent) =>
          LET h == extracted_data.humidity
              r == processed_data.humidity_percent
          IN /\ (r.k = "num" /\ r.n % 10 = 0) \/ r.k = "bigint"
             /\ IsNumber(h) =>
                   /\ r.k = "num" /\ TowardZero(h.n, r.n)
                   /\ Logged("warning", "humidity") <=> (r.n < 0 \/ r.n > 1000)
                   /\ (h.n > 1000 /\ h.n < 1010) =>
                         r = Num(1000) /\ ~Logged("warning", "humidity")
                   /\ (h.n > -10 /\ h.n < 0) =>
                         r = Num(0) /\ ~Logged("warning", "humidity")
    /\ (/\ StageCalled("validate") /\ Usable(extracted_data)
        /\ IsNumber(extracted_data.humidity)
        /\ \/ extracted_data.humidity.n > 1000 /\ extracted_data.humidity.n < 1010
           \/ extracted_data.humidity.n > -10 /\ extracted_data.humidity.n < 0)
       => processed_data # Absent

\* a reported humidity of -0.5 recorded as 0 without a humidity warning
C28_Witness ==
    /\ StageCalled("validate")
    /\ processed_data # Absent
    /\ extracted_data.humidity = Num(-5)
    /\ processed_data.humidity_percent = Num(0)
    /\ ~Logged("warning", "humidity")

\* ------------------------------------------------------------------------
\* Observations on two concurrent saves
\* ------------------------------------------------------------------------
BothDone == procs[1].pc = "done" /\ procs[2].pc = "done"

\* both calls carry one timestamp, not stored before, in well-typed records
SameNewTimestamp ==
    /\ procs[1].rec.timestamp_utc = procs[2].rec.timestamp_utc
    /\ procs[1].rec.timestamp_utc \notin Timestamps(store0)
    /\ WellTypedRecord(procs[1].rec) /\ WellTypedRecord(procs[2].rec)

\* C29: two concurrent save_to_sqlite calls with one timestamp: under every
\* interleaving at most one returns True, the store never holds more than one
\* row for the timestamp and that row is the whole row of one of the two
\* records, and when both have ended exactly one returned True, its row is the
\* one stored, and the other returned False or raised sqlite3.Error.
C29_ConcurrentSavesInsertOnce ==
    SameNewTimestamp =>
        LET ts == procs[1].rec.timestamp_utc
        IN /\ ~(procs[1].result = "True" /\ procs[2].result = "True")
           /\ Cardinality(RowsAt(ts)) <= 1
           /\ RowsAt(ts) \subseteq {RowOf(procs[1].rec), RowOf(procs[2].rec)}
           /\ \A r \in store0.rows : r \in store.rows
           /\ BothDone =>
                 \E w \in {1, 2} :
                    /\ procs[w].result = "True"
                    /\ RowsAt(ts) = {RowOf(procs[w].rec)}
                    /\ store.rows = store0.rows \cup {RowOf(procs[w].rec)}
                    /\ \/ procs[Other(w)].result = "False"
                       \/ /\ procs[Other(w)].result = "raise"
                          /\ procs[Other(w)].exc = "sqlite3.Error"

\* two different records with one timestamp: the first call found the
\* timestamp stored by the second, which had inserted its own row
C29_Witness ==
    /\ BothDone /\ SameNewTimestamp
    /\ procs[1].rec # procs[2].rec
    /\ procs[1].result = "False"
    /\ procs[2].result = "True"
    /\ store0 = NoStore
    /\ store.rows = {RowOf(procs[2].rec)}

====
